---- MODULE Spec2Model ----
(***************************************************************************)
(* Model of streamlit_app.py: the cached history retrieval (fetch_all),    *)
(* the RSI and volatility helpers, the selection and signal labelling of   *)
(* analyze_universe, the refresh handling of handle_query_params and the   *)
(* top-level script run.                                                   *)
(*                                                                         *)
(* Numbers.  Closing prices are powers of two, so that log returns are     *)
(* whole multiples of ln 2.  Floating point values are carried in fixed    *)
(* point: an RSI in hundredths (the code rounds to 2 decimals), a          *)
(* volatility in thousandths of ln 2.  NaN is a value of its own and every *)
(* comparison with it is false, as in IEEE arithmetic.                     *)
(***************************************************************************)
EXTENDS Integers, Sequences, FiniteSets, TLC

\* ------------------------------------------------------------------ config
RSI_PERIOD == 14
VOL_DAYS == 252
CACHE_TTL_SECONDS == 600
N_CARDS == 10
MIN_VOL_OBS == 10
MIN_LOG_RET == 2
MIN_DAILY == 40
MIN_WEEKLY == 8
TAIL_DAYS == 40
RSI_HI == 60
RSI_LO == 40
ANNUALIZE == 252

\* Bounds of the model.
UniverseSize == 11
MaxTicks == 2
TickSeconds == 300

\* Fixed point scales.
EwmScale == 10000
VarScale == 10000

NaN == -1

\* The universe: tickers are numbered in the order of the list.
NIFTY50 == [i \in 1 .. UniverseSize |-> i]

\* ------------------------------------------------------------ float helpers
IsNaN(x) == x = NaN
Gt(x, y) == (~IsNaN(x)) /\ (~IsNaN(y)) /\ x > y
Lt(x, y) == (~IsNaN(x)) /\ (~IsNaN(y)) /\ x < y
Le(x, y) == (~IsNaN(x)) /\ (~IsNaN(y)) /\ x <= y

Min(a, b) == IF a < b THEN a ELSE b
Max(a, b) == IF a > b THEN a ELSE b
CeilDiv(a, b) == (a + b - 1) \div b
Last(s) == s[Len(s)]

\* Integer square root (largest r with r*r <= n), by bisection.
RECURSIVE IsqrtIn(_, _, _)
IsqrtIn(n, lo, hi) ==
    IF lo >= hi THEN lo
    ELSE LET mid == (lo + hi + 1) \div 2
         IN  IF mid * mid <= n THEN IsqrtIn(n, mid, hi) ELSE IsqrtIn(n, lo, mid - 1)
Isqrt(n) == IsqrtIn(n, 0, 46340)

\* log2 of a closing price (prices are 1, 2, 4 or 8).
Log2(p) == CASE p = 1 -> 0 [] p = 2 -> 1 [] p = 4 -> 2 [] OTHER -> 3

\* ------------------------------------------------------------------ series
\* pandas Series.dropna(): the non-missing values, in order.
dropna(s) == SelectSeq(s, LAMBDA v : ~IsNaN(v))

\* Series.tail(n) / Series.iloc[-n:].
tail(s, n) == IF Len(s) <= n THEN s ELSE SubSeq(s, Len(s) - n + 1, Len(s))

\* Series.iloc[-1] of a non-empty series.
iloc_last(s) == s[Cardinality(DOMAIN s)]

\* One step of ewm(alpha=1/period, adjust=False).mean():
\* y = (1 - alpha) * y_prev + alpha * x, in units of 1/EwmScale.  The quotient is
\* rounded up: a double never underflows to zero within a two-year lookback, so
\* an average that was positive stays positive.
ewmStep(prev, v) == CeilDiv((RSI_PERIOD - 1) * prev + v * EwmScale, RSI_PERIOD)

\* The average after smoothing v[lo..hi] into prev.  The steps are applied in
\* order; the range is halved, and the first half evaluated before the second
\* is entered, only to keep the evaluation shallow.
RECURSIVE ewmFold(_, _, _, _)
ewmFold(v, lo, hi, prev) ==
    IF lo > hi THEN prev
    ELSE IF lo = hi THEN ewmStep(prev, v[lo])
    ELSE LET mid == (lo + hi) \div 2
             first == ewmFold(v, lo, mid, prev)
         IN  IF first >= 0 THEN ewmFold(v, mid + 1, hi, first) ELSE first

\* ewm(...).mean() at position i: seeded by the first value.
ewm(v, i) == ewmFold(v, 2, i, v[1] * EwmScale)

\* 100 - 100 / (1 + avg_up / avg_down), in hundredths.  0/0 is NaN, x/0 is inf
\* and 100 - 100/inf is 100.
rsiValue(avg_up, avg_down) ==
    IF avg_up = 0 /\ avg_down = 0 THEN NaN
    ELSE IF avg_down = 0 THEN 100 * 100
    ELSE (100 * 100 * avg_up + (avg_up + avg_down) \div 2) \div (avg_up + avg_down)

\* rsi(): the RSI series of a closing-price series.  The first difference is
\* missing, so the first value is NaN.
rsi(series) ==
    LET s == dropna(series)
        delta == [i \in 1 .. (Len(s) - 1) |-> s[i + 1] - s[i]]
        up == [i \in 1 .. (Len(s) - 1) |-> Max(delta[i], 0)]
        down == [i \in 1 .. (Len(s) - 1) |-> Max(0 - delta[i], 0)]
    IN  [i \in 1 .. Len(s) |->
            IF i = 1 THEN NaN ELSE rsiValue(ewm(up, i - 1), ewm(down, i - 1))]

\* The sum of f[lo..hi].
RECURSIVE Sum(_, _, _)
Sum(f, lo, hi) ==
    IF lo > hi THEN 0
    ELSE IF lo = hi THEN f[lo]
    ELSE LET mid == (lo + hi) \div 2 IN Sum(f, lo, mid) + Sum(f, mid + 1, hi)

\* annual_vol(): population standard deviation of the log returns of the last
\* VOL_DAYS closes, times sqrt(252); NaN when there is too little data.  The
\* result is in thousandths of ln 2.
annual_vol(close_series) ==
    LET s0 == dropna(close_series)
    IN  IF Len(s0) < MIN_VOL_OBS THEN NaN
        ELSE LET s == IF Len(s0) >= VOL_DAYS THEN tail(s0, VOL_DAYS) ELSE s0
                 n == Len(s) - 1
                 log_ret == [i \in 1 .. n |-> Log2(s[i + 1]) - Log2(s[i])]
             IN  IF n < MIN_LOG_RET THEN NaN
                 ELSE LET sq == [i \in 1 .. n |-> log_ret[i] * log_ret[i]]
                          total == Sum(log_ret, 1, n)
                          var == ((n * Sum(sq, 1, n) - total * total) * VarScale) \div (n * n)
                      IN  Isqrt(var * ANNUALIZE * 100)

\* -------------------------------------------------------------- data frames
\* A price table: whether it has a 'Close' column, and per row the calendar day
\* (day 0 is a Monday), the close (a price or NaN) and whether any other column
\* of the row holds a value.
EmptyFrame == [hasClose |-> FALSE, day |-> <<>>, close |-> <<>>, rest |-> <<>>]

\* DataFrame.empty: no rows or no columns.
empty(df) == Len(df.day) = 0

Rows(df, keep) ==
    [hasClose |-> df.hasClose,
     day |-> [i \in 1 .. Len(keep) |-> df.day[keep[i]]],
     close |-> [i \in 1 .. Len(keep) |-> df.close[keep[i]]],
     rest |-> [i \in 1 .. Len(keep) |-> df.rest[keep[i]]]]

\* DataFrame.dropna(how='all'): drop the rows in which every column is missing.
dropna_all(df) ==
    Rows(df, SelectSeq([i \in 1 .. Len(df.day) |-> i],
                       LAMBDA i : (~IsNaN(df.close[i])) \/ df.rest[i]))

\* df.resample('W').last()['Close'].dropna(): per calendar week (ending on
\* Sunday) the last non-missing close; weeks without one are dropped.
WeekOf(d) == d \div 7
resample_W_last_close(df) ==
    LET n == Len(df.day)
        lastOfWeek(i) ==
            /\ ~IsNaN(df.close[i])
            /\ \A j \in (i + 1) .. Min(n, i + 6) :
                  WeekOf(df.day[j]) = WeekOf(df.day[i]) => IsNaN(df.close[j])
        keep == SelectSeq([i \in 1 .. n |-> i], lastOfWeek)
    IN  [i \in 1 .. Len(keep) |-> df.close[keep[i]]]

\* ---------------------------------------------------------------- provider
\* What the provider can answer.  A table of n rows repeats a short pattern of
\* closes; sessions fall on perWeek days of each week; every gap-th close is
\* missing (gap = 0: none).
MkFrame(pat, n, perWeek, gap, hasClose, rest) ==
    [hasClose |-> hasClose,
     day |-> [k \in 1 .. n |-> 7 * ((k - 1) \div perWeek) + ((k - 1) % perWeek)],
     close |-> [k \in 1 .. n |->
                   IF gap > 0 /\ k % gap = 0 THEN NaN ELSE pat[((k - 1) % Len(pat)) + 1]],
     rest |-> [k \in 1 .. n |-> rest]]

Daily(pat, n) == MkFrame(pat, n, 5, 0, TRUE, TRUE)

\* An answer for one ticker: the ticker's part of the batch table (or none:
\* raw[t] raises) and the single-ticker download (or none: it raises).
Both(df) == [batch |-> <<df>>, single |-> <<df>>]
Answers ==
    << Both(Daily(<<1, 2, 2, 2, 1, 1>>, 40)),
       Both(Daily(<<1, 2, 2, 2, 2, 1>>, 40)),
       Both(Daily(<<1, 2>>, 40)),
       Both(Daily(<<2, 1, 1, 1, 2, 2>>, 40)),
       Both(Daily(<<1, 1, 2>>, 40)),
       Both(Daily(<<1, 1, 1, 1, 2, 1, 1>>, 40)),
       Both(Daily(<<1>>, 40)),
       Both(Daily(<<2, 2, 2, 2, 1, 2, 2>>, 40)),
       Both(Daily(<<2, 1>>, 40)),
       Both(Daily(<<2, 1, 1, 1, 1, 2>>, 40)),
       Both(Daily(<<1, 1, 1, 1, 2>>, 45)),
       [batch |-> <<>>, single |-> <<>>],
       Both(Daily(<<1, 2, 1, 1, 1, 1, 1, 1, 1, 1>>, 40)),
       Both(Daily(<<1, 2, 4, 2>>, 260)),
       [batch |-> <<>>, single |-> <<Daily(<<4, 2, 1, 2>>, 41)>>],
       Both(MkFrame(<<1, 2, 2, NaN>>, 56, 5, 0, TRUE, FALSE)),
       Both(MkFrame(<<NaN>>, 40, 5, 0, TRUE, FALSE)),
       Both(MkFrame(<<1, 2>>, 40, 5, 0, FALSE, TRUE)),
       Both(Daily(<<1, 2>>, 9)),
       Both(Daily(<<1, 2, 2>>, 39)),
       Both(MkFrame(<<1, 2, 2>>, 45, 5, 5, TRUE, TRUE)),
       Both(MkFrame(<<1, 2, 2>>, 40, 7, 0, TRUE, TRUE)) >>

\* The provider's answer to a whole universe: ticker t gets answer
\* (stride * (t - 1) + shift), counted around the list of answers.
World(stride, shift) ==
    [t \in 1 .. UniverseSize |->
        Answers[((stride * (t - 1) + shift) % Len(Answers)) + 1]]

\* ------------------------------------------------------------- fetch_all
\* fetch_all() with a fallback that tries the single-ticker download twice.
fetch_all_retry(tickers, raises, world) ==
    IF raises
    THEN [out |-> <<>>, batch |-> 1, single |-> [i \in 1 .. Len(tickers) |-> 0]]
    ELSE [out |-> [i \in 1 .. Len(tickers) |->
                      IF world[tickers[i]].batch # <<>>
                      THEN [tk |-> tickers[i], df |-> dropna_all(world[tickers[i]].batch[1])]
                      ELSE IF world[tickers[i]].single # <<>>
                      THEN [tk |-> tickers[i], df |-> world[tickers[i]].single[1]]
                      ELSE [tk |-> tickers[i], df |-> EmptyFrame]],
          batch |-> 1,
          single |-> [i \in 1 .. Len(tickers) |->
                         IF world[tickers[i]].batch = <<>> THEN 2 ELSE 0]]

\* The body of fetch_all: the price map (a dict, kept in insertion order as a
\* sequence of entries), and the provider calls it made.  raises: the batch
\* download raises; world[t]: the provider's answer for ticker t.
fetch_all(tickers, raises, world) ==
    IF raises
    THEN [out |-> <<>>, batch |-> 1, single |-> [i \in 1 .. Len(tickers) |-> 0]]
    ELSE IF Len(tickers) = 1
    THEN [out |-> << [tk |-> tickers[1],
                      df |-> IF world[tickers[1]].batch = <<>> THEN EmptyFrame
                             ELSE world[tickers[1]].batch[1]] >>,
          batch |-> 1, single |-> <<0>>]
    ELSE LET entry(t) ==
                 IF world[t].batch # <<>>
                 THEN [tk |-> t, df |-> dropna_all(world[t].batch[1])]
                 ELSE IF world[t].single # <<>>
                 THEN [tk |-> t, df |-> world[t].single[1]]
                 ELSE [tk |-> t, df |-> EmptyFrame]
         IN  [out |-> [i \in 1 .. Len(tickers) |-> entry(tickers[i])],
              batch |-> 1,
              single |-> [i \in 1 .. Len(tickers) |->
                             IF world[tickers[i]].batch = <<>> THEN 1 ELSE 0]]

\* ------------------------------------------------------ analyze_universe
\* list.sort(key=...) is stable: ties keep their order.  keys[i] is the key
\* of s[i].
StableRank(keys, i) ==
    1 + Cardinality({j \in 1 .. Len(keys) :
                       keys[j] < keys[i] \/ (keys[j] = keys[i] /\ j < i)})
\* DataFrame.sort_values(kind='quicksort') promises nothing about ties: this is
\* the outcome that reverses them.
ReversedRank(keys, i) ==
    1 + Cardinality({j \in 1 .. Len(keys) :
                       keys[j] < keys[i] \/ (keys[j] = keys[i] /\ j > i)})
sort(s, keys) ==
    [p \in 1 .. Len(s) |-> s[CHOOSE i \in 1 .. Len(s) : StableRank(keys, i) = p]]
sort_values(s, keys, ties) ==
    IF ties = "kept" THEN sort(s, keys)
    ELSE [p \in 1 .. Len(s) |-> s[CHOOSE i \in 1 .. Len(s) : ReversedRank(keys, i) = p]]

head(s, n) == IF Len(s) <= n THEN s ELSE SubSeq(s, 1, n)

usable(df) == ~(empty(df) \/ ~df.hasClose)

\* price_map.get(tk, pd.DataFrame())
get(price_map, tk) ==
    IF \E i \in 1 .. Len(price_map) : price_map[i].tk = tk
    THEN price_map[CHOOSE i \in 1 .. Len(price_map) : price_map[i].tk = tk].df
    ELSE EmptyFrame

between(v) == Le(RSI_LO * 100, v) /\ Le(v, RSI_HI * 100)

\* signal() with the upper threshold taken as inclusive (>= 60).
signal_inclusive(d, w) ==
    IF Le(RSI_HI * 100, d) /\ between(w)
    THEN [signal |-> "Conflict", color |-> "gray", cross |-> TRUE]
    ELSE IF Le(RSI_HI * 100, w) /\ between(d)
    THEN [signal |-> "Conflict", color |-> "gray", cross |-> TRUE]
    ELSE IF Le(RSI_HI * 100, d) /\ Le(RSI_HI * 100, w)
    THEN [signal |-> "Buy", color |-> "green", cross |-> FALSE]
    ELSE IF Lt(d, RSI_LO * 100) /\ Lt(w, RSI_LO * 100)
    THEN [signal |-> "Sell", color |-> "red", cross |-> FALSE]
    ELSE [signal |-> "Neutral", color |-> "yellow", cross |-> FALSE]

\* The signal of one row: label, colour and conflict marker.
signal(d, w) ==
    IF Gt(d, RSI_HI * 100) /\ between(w)
    THEN [signal |-> "Conflict", color |-> "gray", cross |-> TRUE]
    ELSE IF Gt(w, RSI_HI * 100) /\ between(d)
    THEN [signal |-> "Conflict", color |-> "gray", cross |-> TRUE]
    ELSE IF Gt(d, RSI_HI * 100) /\ Gt(w, RSI_HI * 100)
    THEN [signal |-> "Buy", color |-> "green", cross |-> FALSE]
    ELSE IF Lt(d, RSI_LO * 100) /\ Lt(w, RSI_LO * 100)
    THEN [signal |-> "Sell", color |-> "red", cross |-> FALSE]
    ELSE IF between(d) /\ between(w)
    THEN [signal |-> "Neutral", color |-> "yellow", cross |-> FALSE]
    ELSE [signal |-> "Neutral", color |-> "yellow", cross |-> FALSE]

\* candidate() without the test on the number of weekly observations.
candidate_no_weekly(price_map, tk, vol, names) ==
    LET df == get(price_map, tk)
    IN  IF ~usable(df) THEN <<>>
        ELSE LET daily == dropna(df.close)
                 weekly == resample_W_last_close(df)
             IN  IF Len(daily) < MIN_DAILY THEN <<>>
                 ELSE << [ticker |-> tk,
                          company |-> names[tk],
                          daily_rsi |-> iloc_last(rsi(daily)),
                          weekly_rsi |-> iloc_last(rsi(weekly)),
                          volatility |-> vol,
                          series_daily |-> tail(daily, TAIL_DAYS)] >>

\* One pass of the selection loop for (tk, vol): the candidate's row, or none
\* when the ticker is skipped.  names[tk] is what the name lookup yields.
candidate(price_map, tk, vol, names) ==
    LET df == get(price_map, tk)
    IN  IF ~usable(df) THEN <<>>
        ELSE LET daily == dropna(df.close)
                 weekly == resample_W_last_close(df)
             IN  IF Len(daily) < MIN_DAILY THEN <<>>
                 ELSE IF Len(weekly) < MIN_WEEKLY THEN <<>>
                 ELSE << [ticker |-> tk,
                          company |-> names[tk],
                          daily_rsi |-> iloc_last(rsi(daily)),
                          weekly_rsi |-> iloc_last(rsi(weekly)),
                          volatility |-> vol,
                          series_daily |-> tail(daily, TAIL_DAYS)] >>

RECURSIVE select(_, _, _, _, _)
select(price_map, vol_list, names, i, selected) ==
    IF i > Len(vol_list) \/ Len(selected) >= N_CARDS THEN selected
    ELSE select(price_map, vol_list, names, i + 1,
                selected \o candidate(price_map, vol_list[i].tk, vol_list[i].vol, names))

\* The sort keys: x[1] of the (ticker, vol) pairs, the "volatility" column.
Vol(s) == [i \in 1 .. Len(s) |-> s[i].vol]
Volatility(s) == [i \in 1 .. Len(s) |-> s[i].volatility]

\* The labelling loop: every row gets its signal, colour and conflict marker.
label_rows(df) ==
    [i \in 1 .. Len(df) |->
        [ticker |-> df[i].ticker,
         company |-> df[i].company,
         daily_rsi |-> df[i].daily_rsi,
         weekly_rsi |-> df[i].weekly_rsi,
         volatility |-> df[i].volatility,
         series_daily |-> df[i].series_daily,
         signal |-> signal(df[i].daily_rsi, df[i].weekly_rsi).signal,
         color |-> signal(df[i].daily_rsi, df[i].weekly_rsi).color,
         cross |-> signal(df[i].daily_rsi, df[i].weekly_rsi).cross]]

\* analyze_universe on the price map fetch_all returned.  raised: an exception
\* leaves the function (pd.DataFrame([]).sort_values("volatility") raises
\* KeyError: a frame built from no rows has no columns); df: the table
\* returned; names: the name lookups made.
analyze_universe(price_map, names, ties) ==
    LET have == SelectSeq(price_map, LAMBDA e : usable(e.df))
        vols == [i \in 1 .. Len(have) |->
                    [tk |-> have[i].tk, vol |-> annual_vol(have[i].df.close)]]
        defined == SelectSeq(vols, LAMBDA e : ~IsNaN(e.vol))
        vol_list == sort(defined, Vol(defined))
        selected == select(price_map, vol_list, names, 1, <<>>)
    IN  IF selected = <<>>
        THEN [raised |-> TRUE, df |-> <<>>, names |-> 0]
        ELSE [raised |-> FALSE,
              df |-> label_rows(head(sort_values(selected, Volatility(selected), ties),
                                      N_CARDS)),
              names |-> Len(selected)]

\* ------------------------------------------------------------ the app
VARIABLES
    pc,            \* "idle": between script runs; "handle": a run is about to call
                   \* handle_query_params; "analyze": about to call analyze_universe
    urlRefresh,    \* the URL of the page load being served carries ?refresh=<ts>
    query_params,  \* what the name st.query_params is bound to: Streamlit's "proxy"
                   \* of the session's URL parameters, or the "dict" {} assigned to it
    hasRerun,      \* the installed Streamlit still has st.experimental_rerun
    cache,         \* st.cache_data's entry for fetch_all(NIFTY50)
    now,           \* the clock, in seconds
    result,        \* what the last call of analyze_universe did
    page,          \* what the last script run showed
    calls,         \* the provider calls of the last call of analyze_universe
    clears,        \* cache clears while serving the current page load
    reruns,        \* reruns requested while serving the current page load
    served,        \* the provider's answer to the last run of fetch_all's body
    lastRun        \* when analyze_universe was last called (-1: never)

vars == <<pc, urlRefresh, query_params, hasRerun, cache, now, result, page, calls,
          clears, reruns, served, lastRun>>

\* The provider's answers that are tried: every ticker the same answer
\* (stride 0) or consecutive answers (stride 1), from the first or the twelfth.
Strides == 0 .. 1
Shifts == {0, Len(Answers) \div 2}
NameAnswers == {[t \in 1 .. UniverseSize |-> "Name"], [t \in 1 .. UniverseSize |-> ""]}
TieOrders == {"kept", "reversed"}

NoCache == [present |-> FALSE, value |-> <<>>, at |-> 0]
NoCalls == [batch |-> 0, single |-> [i \in 1 .. UniverseSize |-> 0], names |-> 0]

Init ==
    /\ pc = "idle"
    /\ urlRefresh = FALSE
    /\ query_params = "proxy"
    /\ hasRerun \in BOOLEAN
    /\ cache = NoCache
    /\ now = 0
    /\ result = [raised |-> FALSE, df |-> <<>>, names |-> 0]
    /\ page = "none"
    /\ calls = NoCalls
    /\ clears = 0
    /\ reruns = 0
    /\ served = [raises |-> FALSE, stride |-> 0, shift |-> 0]
    /\ lastRun = 0 - 1

\* A page load: the browser asks for the app, with or without ?refresh=<ts>
\* (the Refresh button links to it).
Request(refresh) ==
    /\ pc = "idle"
    /\ pc' = "handle"
    /\ urlRefresh' = refresh
    /\ clears' = 0
    /\ reruns' = 0
    /\ UNCHANGED <<query_params, hasRerun, cache, now, result, page, calls, served,
                   lastRun>>

\* "refresh" in st.query_params: the proxy reads the URL, the dict {} is empty.
SeesRefresh == query_params = "proxy" /\ urlRefresh

\* handle_query_params() without the assignment st.query_params = {}.
handle_query_params_keep ==
    /\ pc = "handle"
    /\ IF SeesRefresh
       THEN /\ cache' = [present |-> FALSE, value |-> <<>>, at |-> 0]
            /\ clears' = clears + 1
            /\ query_params' = query_params
            /\ IF hasRerun
               THEN pc' = "handle" /\ reruns' = reruns + 1
               ELSE pc' = "analyze" /\ reruns' = reruns
       ELSE /\ pc' = "analyze"
            /\ UNCHANGED <<cache, clears, query_params, reruns>>
    /\ UNCHANGED <<urlRefresh, hasRerun, now, result, page, calls, served, lastRun>>

\* handle_query_params().  The assignment st.query_params = {} rebinds the
\* attribute of the streamlit module, which every later run reads.  The rerun
\* ends this run and starts the script again when st.experimental_rerun
\* exists; otherwise its AttributeError is swallowed and the run goes on.
handle_query_params ==
    /\ pc = "handle"
    /\ IF SeesRefresh
       THEN /\ cache' = NoCache
            /\ clears' = clears + 1
            /\ query_params' = "dict"
            /\ IF hasRerun
               THEN pc' = "handle" /\ reruns' = reruns + 1
               ELSE pc' = "analyze" /\ reruns' = reruns
       ELSE /\ pc' = "analyze"
            /\ UNCHANGED <<cache, clears, query_params, reruns>>
    /\ UNCHANGED <<urlRefresh, hasRerun, now, result, page, calls, served, lastRun>>

\* The calls of fetch_all and analyze_universe on these inputs, evaluated once.
Fetched ==
    [raises \in BOOLEAN, stride \in Strides, shift \in Shifts |->
        fetch_all(NIFTY50, raises, World(stride, shift))]
PriceMaps == {Fetched[k].out : k \in DOMAIN Fetched}
Analysed ==
    [price_map \in PriceMaps, names \in NameAnswers, ties \in TieOrders |->
        analyze_universe(price_map, names, ties)]

\* The cache with the TTL taken as half of what it is.
CacheHit_half == cache.present /\ now - cache.at < CACHE_TTL_SECONDS \div 2

\* @st.cache_data(ttl=CACHE_TTL_SECONDS): an entry is served while it is
\* younger than the TTL.
CacheHit == cache.present /\ now - cache.at < CACHE_TTL_SECONDS

\* The rest of the script run: analyze_universe, then the warning or the cards.
Show(res) ==
    IF res.raised THEN "exception"
    ELSE IF res.df = <<>> THEN "warning"
    ELSE "cards"

\* analyze_universe() when fetch_all(NIFTY50) is served from the cache.
RunCached(names, ties) ==
    /\ pc = "analyze"
    /\ CacheHit
    /\ LET res == Analysed[cache.value, names, ties]
       IN  /\ result' = res
           /\ page' = Show(res)
           /\ calls' = [NoCalls EXCEPT !.names = res.names]
    /\ pc' = "idle"
    /\ lastRun' = now
    /\ UNCHANGED <<urlRefresh, query_params, hasRerun, cache, now, clears, reruns,
                   served>>

\* RunFetch() with a cache that does not keep the result of a failed download.
RunFetch_drop_failure(raises, stride, shift, names, ties) ==
    /\ pc = "analyze"
    /\ ~CacheHit
    /\ LET got == Fetched[raises, stride, shift]
           res == Analysed[got.out, names, ties]
       IN  /\ cache' = IF raises THEN NoCache
                       ELSE [present |-> TRUE, value |-> got.out, at |-> now]
           /\ result' = res
           /\ page' = Show(res)
           /\ calls' = [batch |-> got.batch, single |-> got.single, names |-> res.names]
    /\ pc' = "idle"
    /\ lastRun' = now
    /\ served' = [raises |-> raises, stride |-> stride, shift |-> shift]
    /\ UNCHANGED <<urlRefresh, query_params, hasRerun, now, clears, reruns>>

\* analyze_universe() when fetch_all(NIFTY50) runs its body.
RunFetch(raises, stride, shift, names, ties) ==
    /\ pc = "analyze"
    /\ ~CacheHit
    /\ LET got == Fetched[raises, stride, shift]
           res == Analysed[got.out, names, ties]
       IN  /\ cache' = [present |-> TRUE, value |-> got.out, at |-> now]
           /\ result' = res
           /\ page' = Show(res)
           /\ calls' = [batch |-> got.batch, single |-> got.single, names |-> res.names]
    /\ pc' = "idle"
    /\ lastRun' = now
    /\ served' = [raises |-> raises, stride |-> stride, shift |-> shift]
    /\ UNCHANGED <<urlRefresh, query_params, hasRerun, now, clears, reruns>>

\* Time passes between page loads.
Tick ==
    /\ pc = "idle"
    /\ now < MaxTicks * TickSeconds
    /\ now' = now + TickSeconds
    /\ UNCHANGED <<pc, urlRefresh, query_params, hasRerun, cache, result, page, calls,
                   clears, reruns, served, lastRun>>

Next ==
    \/ \E refresh \in BOOLEAN : Request(refresh)
    \/ handle_query_params
    \/ \E names \in NameAnswers, ties \in TieOrders : RunCached(names, ties)
    \/ \E raises \in BOOLEAN, stride \in Strides, shift \in Shifts,
          names \in NameAnswers, ties \in TieOrders :
          RunFetch(raises, stride, shift, names, ties)
    \/ Tick

Spec == Init /\ [][Next]_vars

\* ------------------------------------------------- the labelling loop alone
\* The labelling loop of analyze_universe applied to a one-row table with the
\* RSI pair (d, w).
RsiGrid == {NaN, 0, 2500, 3999, 4000, 4001, 5000, 5999, 6000, 6001, 7500, 10000}

LabelPair(d, w) ==
    /\ result' = [raised |-> FALSE,
                  df |-> label_rows(<< [ticker |-> 1, company |-> "", daily_rsi |-> d,
                                        weekly_rsi |-> w, volatility |-> 0,
                                        series_daily |-> <<>>] >>),
                  names |-> 0]
    /\ UNCHANGED <<pc, urlRefresh, query_params, hasRerun, cache, now, page, calls,
                   clears, reruns, served, lastRun>>

NextSignal == \E d \in RsiGrid, w \in RsiGrid : LabelPair(d, w)

SpecSignal == Init /\ [][NextSignal]_vars

\* ------------------------------------------------------------------ claims
Range(s) == {s[i] : i \in 1 .. Len(s)}
InRange(v) == v >= 0 /\ v <= 100 * 100

\* The table of the specification, first match wins.
TableLabel(d, w) ==
    IF (d > 6000 /\ w >= 4000 /\ w <= 6000) \/ (w > 6000 /\ d >= 4000 /\ d <= 6000)
    THEN "Conflict"
    ELSE IF d > 6000 /\ w > 6000 THEN "Buy"
    ELSE IF d < 4000 /\ w < 4000 THEN "Sell"
    ELSE "Neutral"

\* C1: every row whose daily and weekly RSI are both in [0,100] carries the
\* label of the six-rule table (Conflict when one RSI is above 60 and the other
\* in [40,60], Buy when both are above 60, Sell when both are below 40, Neutral
\* otherwise), and its conflict marker is set exactly when the label is Conflict.
C1_SignalTable ==
    \A r \in Range(result.df) :
        (InRange(r.daily_rsi) /\ InRange(r.weekly_rsi)) =>
            /\ r.signal = TableLabel(r.daily_rsi, r.weekly_rsi)
            /\ r.cross = (r.signal = "Conflict")

\* A row of the fallback rule: daily RSI above 60, weekly below 40, Neutral.
C1_Witness ==
    \E r \in Range(result.df) :
        /\ r.daily_rsi > 6000 /\ InRange(r.weekly_rsi) /\ r.weekly_rsi < 4000
        /\ r.signal = "Neutral" /\ ~r.cross

\* What the claims say of a table, counted directly on its rows.
NonMissing(df) == Cardinality({i \in 1 .. Len(df.close) : df.close[i] # NaN})
WeeksWithClose(df) ==
    Cardinality({df.day[i] \div 7 : i \in {j \in 1 .. Len(df.close) : df.close[j] # NaN}})
Mapped(price_map, t) == \E e \in Range(price_map) : e.tk = t
FrameOf(price_map, t) == (CHOOSE e \in Range(price_map) : e.tk = t).df
Survives(price_map, t) ==
    /\ Mapped(price_map, t)
    /\ FrameOf(price_map, t).hasClose
    /\ NonMissing(FrameOf(price_map, t)) >= 40
    /\ WeeksWithClose(FrameOf(price_map, t)) >= 8
Survivors(price_map) == {t \in 1 .. UniverseSize : Survives(price_map, t)}

\* The last script run ended and the cache still holds the price map it used.
RanOn == cache.present /\ page # "none"

\* C2: when no ticker survives the pipeline, analyze_universe returns an empty
\* table without raising and the script shows the "no data" warning.
C2_EmptyResultNoRaise ==
    (RanOn /\ Survivors(cache.value) = {}) =>
        (~result.raised /\ result.df = <<>> /\ page = "warning")

SansNames(res) ==
    [raised |-> res.raised, rows |-> {[r EXCEPT !.company = ""] : r \in Range(res.df)}]
NoHistoryCall(c) == c.batch = 0 /\ \A t \in 1 .. UniverseSize : c.single[t] = 0

\* C3 as stated: an invocation less than 600 seconds after the previous one,
\* with no invalidation in between, returns the same output and makes no call
\* to the provider, neither a history retrieval nor a name lookup.
C3_NoProviderCallWithin600 ==
    [][(pc = "analyze" /\ lastRun >= 0 /\ now - lastRun < 600 /\ clears = 0) =>
          (result' = result /\ NoHistoryCall(calls') /\ calls'.names = 0)]_vars

\* C3, amended: an invocation less than 600 seconds after the history retrieval
\* that filled the cache, with no invalidation in between, makes no history
\* retrieval and leaves the cache as it is; it makes one name lookup per row,
\* and it ends as the previous invocation did: the same rows up to the company
\* names and the order of equal volatilities, or the same exception.
C3_CachedHistoryWithin600 ==
    [][(pc = "analyze" /\ cache.present /\ now - cache.at < 600) =>
          /\ NoHistoryCall(calls')
          /\ cache' = cache
          /\ calls'.names = Len(result'.df)
          /\ SansNames(result') = SansNames(result)]_vars

\* An invocation later than the retrieval it was served from, with rows and
\* therefore with name lookups.
C3_Witness ==
    /\ pc = "idle" /\ cache.present /\ lastRun > cache.at
    /\ NoHistoryCall(calls) /\ calls.names > 0 /\ page = "cards"

\* C4: a page load that carries the refresh parameter reaches analyze_universe
\* with nothing served from the cache: the next invocation retrieves the
\* history afresh even when the last retrieval is less than 600 seconds old.
C4_RefreshForcesRetrieval ==
    (pc = "analyze" /\ urlRefresh) => ~(cache.present /\ now - cache.at < 600)

\* C5: no row of the output is for a ticker whose table is empty or lacks the
\* closing prices, that has fewer than 40 non-missing daily closes (so none
\* with fewer than 10, where the volatility is undefined) or fewer than 8 weeks
\* with a close; every row's volatility is a number.
C5_OnlyEligibleRows ==
    RanOn =>
        \A r \in Range(result.df) :
            /\ Mapped(cache.value, r.ticker)
            /\ Len(FrameOf(cache.value, r.ticker).day) > 0
            /\ FrameOf(cache.value, r.ticker).hasClose
            /\ NonMissing(FrameOf(cache.value, r.ticker)) >= 40
            /\ WeeksWithClose(FrameOf(cache.value, r.ticker)) >= 8
            /\ r.volatility # NaN /\ r.volatility >= 0

\* An output with rows, from a price map that has a ticker with an empty table,
\* one without closing prices, one with fewer than 10 closes, one with 10 to
\* 39 closes and one with 40 closes in fewer than 8 weeks.
C5_Witness ==
    /\ RanOn /\ page = "cards" /\ Len(cache.value) = UniverseSize
    /\ \E t \in 1 .. UniverseSize : Len(FrameOf(cache.value, t).day) = 0
    /\ \E t \in 1 .. UniverseSize :
          Len(FrameOf(cache.value, t).day) > 0 /\ ~FrameOf(cache.value, t).hasClose
    /\ \E t \in 1 .. UniverseSize :
          FrameOf(cache.value, t).hasClose /\ NonMissing(FrameOf(cache.value, t)) \in 1 .. 9
    /\ \E t \in 1 .. UniverseSize :
          FrameOf(cache.value, t).hasClose /\ NonMissing(FrameOf(cache.value, t)) \in 10 .. 39
    /\ \E t \in 1 .. UniverseSize :
          /\ FrameOf(cache.value, t).hasClose
          /\ NonMissing(FrameOf(cache.value, t)) >= 40
          /\ WeeksWithClose(FrameOf(cache.value, t)) < 8

\* The place of survivor t when the survivors are sorted by volatility, ties
\* in the order of the universe.
PlaceOf(price_map, t) ==
    1 + Cardinality({u \in Survivors(price_map) :
          \/ annual_vol(FrameOf(price_map, u).close) < annual_vol(FrameOf(price_map, t).close)
          \/ /\ annual_vol(FrameOf(price_map, u).close) = annual_vol(FrameOf(price_map, t).close)
             /\ u < t})

\* C6: the output is the first min(10, S) survivors in ascending order of
\* volatility, ties in the order of the universe.
C6_FirstNByVolatility ==
    RanOn =>
        /\ ~result.raised
        /\ Len(result.df) = Min(10, Cardinality(Survivors(cache.value)))
        /\ \A i \in 1 .. Len(result.df) :
              /\ result.df[i].ticker \in Survivors(cache.value)
              /\ PlaceOf(cache.value, result.df[i].ticker) = i

\* fetch_all's body ran in the last invocation and its result is in the cache.
Fetched1 == calls.batch = 1 /\ cache.present
ServedWorld == World(served.stride, served.shift)

\* C7 as stated: every ticker without a usable batch table, also when the batch
\* call itself failed, got exactly one single-ticker retrieval, and is mapped
\* to an empty series when that failed too.
C7_OneFallbackAlways ==
    Fetched1 =>
        \A t \in 1 .. UniverseSize :
            (served.raises \/ ServedWorld[t].batch = <<>>) =>
                /\ calls.single[t] = 1
                /\ Mapped(cache.value, t)
                /\ (served.raises \/ ServedWorld[t].single = <<>>) =>
                       FrameOf(cache.value, t) = EmptyFrame

\* C7, amended: when the batch call returned, every ticker is mapped; a ticker
\* whose table cannot be taken out of the batch result got exactly one
\* single-ticker retrieval and is mapped to its result, or to an empty series
\* when that failed too; the others got none.  When the batch call itself
\* raised there was no single-ticker retrieval and the map is empty.
C7_OneFallbackAfterBatch ==
    Fetched1 =>
        IF served.raises
        THEN cache.value = <<>> /\ \A t \in 1 .. UniverseSize : calls.single[t] = 0
        ELSE \A t \in 1 .. UniverseSize :
                /\ Mapped(cache.value, t)
                /\ calls.single[t] = (IF ServedWorld[t].batch = <<>> THEN 1 ELSE 0)
                /\ (ServedWorld[t].batch = <<>> /\ ServedWorld[t].single # <<>>) =>
                       FrameOf(cache.value, t) = ServedWorld[t].single[1]
                /\ (ServedWorld[t].batch = <<>> /\ ServedWorld[t].single = <<>>) =>
                       FrameOf(cache.value, t) = EmptyFrame

\* A retrieval in which one ticker fell back and got a table and another fell
\* back and got nothing.
C7_Witness ==
    /\ Fetched1 /\ ~served.raises
    /\ \E t \in 1 .. UniverseSize :
          calls.single[t] = 1 /\ FrameOf(cache.value, t) = EmptyFrame
    /\ \E t \in 1 .. UniverseSize :
          calls.single[t] = 1 /\ Len(FrameOf(cache.value, t).day) > 0

\* No close of the series is below the one before it: the average loss is zero.
NeverFalls(s) == \A i \in 1 .. (Len(s) - 1) : s[i + 1] >= s[i]

\* C8: the latest RSI of every series of at least 2 closes in the price map is
\* in [0,100], and is 100 when the average loss is zero (a constant series
\* included); every row of the output has its daily and weekly RSI in [0,100],
\* never NaN.
C8_RsiInRange ==
    /\ RanOn =>
          \A e \in Range(cache.value) :
              NonMissing(e.df) >= 2 =>
                  /\ InRange(iloc_last(rsi(e.df.close)))
                  /\ NeverFalls(dropna(e.df.close)) =>
                         iloc_last(rsi(e.df.close)) = 100 * 100
    /\ \A r \in Range(result.df) : InRange(r.daily_rsi) /\ InRange(r.weekly_rsi)

\* C9: a retrieval whose batch call raised leaves the empty map in the cache,
\* stamped with the time of the call; an invocation less than 600 seconds
\* later, the cache not cleared, is served the empty map and retrieves nothing.
C9_FailureIsCached ==
    [][/\ (pc = "analyze" /\ calls'.batch = 1 /\ served'.raises) =>
              cache' = [present |-> TRUE, value |-> <<>>, at |-> now]
       /\ (pc = "analyze" /\ cache.present /\ cache.value = <<>>
              /\ now - cache.at < 600) =>
              (NoHistoryCall(calls') /\ cache' = cache /\ served' = served)]_vars

\* An invocation after a failed retrieval, served the empty map from the cache.
C9_Witness ==
    /\ pc = "idle" /\ served.raises /\ cache.present /\ cache.value = <<>>
    /\ lastRun > cache.at /\ NoHistoryCall(calls)

====
